---- MODULE Spec2Model ----
(***************************************************************************)
(* Model of Deployement/app.py: the Streamlit dashboard script.            *)
(*                                                                         *)
(* The script is re-executed from top to bottom on every interaction.      *)
(* One execution calls build_dataset() (memoised by st.cache_data, which   *)
(* itself calls the memoised load_raw()), reads the three multiselect      *)
(* widgets, filters the cleaned table and renders the panels of three      *)
(* tabs.  An exception anywhere stops the execution and is shown to the    *)
(* user; st.cache_data stores a value only when the function returns.      *)
(*                                                                         *)
(* The module imports streamlit, pandas and numpy only, and load_raw()     *)
(* uses `requests` and `io`: its body raises NameError at line 15 in       *)
(* every execution, so no execution of the script gets past line 74.       *)
(* Spec is the script as it runs.  The statements behind that line are     *)
(* modelled as what they are, functions of their inputs: the cleaning      *)
(* steps of build_dataset() (lines 24-72) of a table df, the sidebar and   *)
(* the tabs (lines 76-281) of a cleaned table and a widget selection.      *)
(* SpecSteps applies them to tables and selections drawn from bounded      *)
(* sets.                                                                   *)
(*                                                                         *)
(* Data representation.  A cell is <<>> (missing: None / NaN / NaT) or     *)
(* <<v>>.  A table is [dtypes |-> column name -> dtype, rows |-> sequence  *)
(* of records].  A numeric cell holds a whole number n and stands for the   *)
(* double n (sales and profit in whole dollars, days, the 0/1 risk flag),  *)
(* so the sums of the script are exact and a sum is its own 2-decimal      *)
(* rounding.  A mean is the double sum / count; where the script rounds    *)
(* it to d decimals the binary64 division, the multiplication by 10^d and  *)
(* numpy's rint are computed digit by digit, and the result is in units    *)
(* of 10^-d.                                                               *)
(* Object columns hold strings, as pandas gives them for a parquet string  *)
(* column read with the classic object dtype.                              *)
(***************************************************************************)
EXTENDS Integers, Sequences, FiniteSets, TLC

VARIABLES
    remote,           \* the parquet file behind the URL (a raw table)
    rawCache,         \* st.cache_data store of load_raw():      <<>> or <<table>>
    buildCache,       \* st.cache_data store of build_dataset(): <<>> or <<table>>
    attempts,         \* number of executions of the body of load_raw()
    lastRun,          \* what the latest execution did and how it ended
    region_filter,    \* value of the "Order Region" multiselect
    category_filter,  \* value of the "Product Category" multiselect
    segment_filter,   \* value of the "Customer Segment" multiselect
    data,             \* the filtered view df_clean[mask] (its rows, in table order)
    panels            \* what the three tabs display

vars == <<remote, rawCache, buildCache, attempts, lastRun,
          region_filter, category_filter, segment_filter, data, panels>>

----------------------------------------------------------------------------
(* Cells and generic helpers *)

None == <<>>
Some(v) == <<v>>
IsNull(cell) == cell = None
Val(cell) == cell[1]

Max2(a, b) == IF a >= b THEN a ELSE b

\* Evaluation helpers for TLC, which re-evaluates a definition at each use
\* and a function constructor at each application.  Materialize(x) = x,
\* enumerated once; With(e, F) = F(e), with e evaluated once.
Materialize(x) == CHOOSE y \in {x} : y = y
With(e, F(_)) == CHOOSE r \in {F(x) : x \in {Materialize(e)}} : TRUE

\* the sum of term(1), ..., term(n), by halves of the range
SumTo(n, term(_)) ==
    LET F[r \in (1..(n + 1)) \X (0..n)] ==
            IF r[1] > r[2] THEN 0
            ELSE IF r[1] = r[2] THEN term(r[1])
            ELSE F[<<r[1], (r[1] + r[2]) \div 2>>] + F[<<(r[1] + r[2]) \div 2 + 1, r[2]>>]
    IN  F[<<1, n>>]

\* The elements of s for which keep(_) holds, in order (boolean indexing df[mask]).
SelectRows(s, keep(_)) ==
    LET F[i \in 0..Len(s)] ==
            IF i = 0 THEN <<>>
            ELSE IF keep(s[i]) THEN Append(F[i - 1], s[i]) ELSE F[i - 1]
    IN  F[Len(s)]

\* The first n elements of s (DataFrame.head(n)).
HeadRows(s, n) == With(s, LAMBDA t : IF Len(t) <= n THEN t ELSE SubSeq(t, 1, n))

Range(s) == {s[i] : i \in DOMAIN s}

----------------------------------------------------------------------------
(* Python's ordering of str values (code point order), as used by sorted(),  *)
(* Series.mode() and the sorted group keys of groupby / crosstab.  TLC has   *)
(* no order on strings, so the strings of the model are listed in ascending  *)
(* order once.                                                               *)

Collation ==
    << "1/1/2018 0:00", "1/1/2018 6:00", "1/4/2018 0:00", "1/4/2018 12:00",
       "2/1/2018 0:00", "2/30/2018 0:00",
       "Books", "Cameras", "Canada", "Cleats", "Consumer", "Corporate",
       "First Class", "Golf", "Home Office", "Music", "Oceania",
       "Small Business", "Standard Class", "Toys", "pw" >>

Rank(s) == CHOOSE i \in DOMAIN Collation : Collation[i] = s

StrLess(a, b) == Rank(a) < Rank(b)

\* Lexicographic order of tuples of strings (multi-key group order).
RECURSIVE KeyLess(_, _)
KeyLess(k1, k2) ==
    IF k1 = <<>> \/ k2 = <<>> THEN k1 = <<>> /\ k2 # <<>>
    ELSE IF Head(k1) = Head(k2) THEN KeyLess(Tail(k1), Tail(k2))
         ELSE StrLess(Head(k1), Head(k2))

\* The elements of the finite set S as an ascending sequence under less(_,_).
SortSet(S, less(_, _)) ==
    With(S, LAMBDA T :
        [i \in 1..Cardinality(T) |->
            CHOOSE x \in T : Cardinality({y \in T : less(y, x)}) = i - 1])

IntLess(a, b) == a < b

----------------------------------------------------------------------------
(* pd.to_datetime(..., errors="coerce") on the month/day/year hour:minute    *)
(* strings of the dataset.  DateFields is the tokenisation of each string of *)
(* the model (TLC cannot split a string); validation and conversion are      *)
(* computed from the tokens.                                                 *)

DateFields(s) ==
    CASE s = "1/1/2018 0:00"  -> <<1, 1, 2018, 0, 0>>
      [] s = "1/1/2018 6:00"  -> <<1, 1, 2018, 6, 0>>
      [] s = "1/4/2018 0:00"  -> <<1, 4, 2018, 0, 0>>
      [] s = "1/4/2018 12:00" -> <<1, 4, 2018, 12, 0>>
      [] s = "2/1/2018 0:00"  -> <<2, 1, 2018, 0, 0>>
      [] s = "2/30/2018 0:00" -> <<2, 30, 2018, 0, 0>>
      [] OTHER                -> <<>>

IsLeap(y) == (y % 4 = 0 /\ y % 100 # 0) \/ y % 400 = 0

DaysInMonth(y, m) ==
    IF m = 2 THEN (IF IsLeap(y) THEN 29 ELSE 28)
    ELSE IF m \in {4, 6, 9, 11} THEN 30 ELSE 31

RECURSIVE DaysBeforeMonth(_, _)
DaysBeforeMonth(y, m) ==
    IF m <= 1 THEN 0 ELSE DaysBeforeMonth(y, m - 1) + DaysInMonth(y, m - 1)

\* Days from 1970-01-01 to January 1st of year y (y >= 1970).
DaysBeforeYear(y) ==
    365 * (y - 1970) + (y - 1969) \div 4 - (y - 1901) \div 100 + (y - 1601) \div 400

\* A timestamp is [y, m, min]: year, month and minutes since the epoch.
\* An unparseable or impossible date is coerced to NaT (None).
to_datetime(cell) ==
    IF IsNull(cell) THEN None
    ELSE LET f == DateFields(Val(cell)) IN
         IF f = <<>> THEN None
         ELSE IF ~ ( /\ f[1] \in 1..12
                     /\ f[2] \in 1..DaysInMonth(f[3], f[1])
                     /\ f[4] \in 0..23
                     /\ f[5] \in 0..59 )
              THEN None
              ELSE Some([y |-> f[3], m |-> f[1],
                         min |-> ((DaysBeforeYear(f[3]) + DaysBeforeMonth(f[3], f[1])
                                   + (f[2] - 1)) * 24 + f[4]) * 60 + f[5]])

\* Variant: the difference taken the wrong way round (order - shipping).
TimedeltaDays_swapped(ship, order) ==
    IF IsNull(ship) \/ IsNull(order) THEN None
    ELSE Some((Val(order).min - Val(ship).min) \div 1440)

\* (shipping_date - order_date).dt.days: the days component of the timedelta,
\* i.e. the floor of the difference in days; NaN when either side is NaT.
TimedeltaDays(ship, order) ==
    IF IsNull(ship) \/ IsNull(order) THEN None
    ELSE Some((Val(ship).min - Val(order).min) \div 1440)

\* Series.dt.to_period("M")
to_period_M(ts) ==
    IF IsNull(ts) THEN None ELSE Some(<<Val(ts).y, Val(ts).m>>)

PeriodLess(p, q) == p[1] < q[1] \/ (p[1] = q[1] /\ p[2] < q[2])

----------------------------------------------------------------------------
(* Column names.  Spelling gives each column name of the model as its        *)
(* sequence of characters, so that the name normalisation of build_dataset   *)
(* (lower-case, drop punctuation, spaces to underscores, strip) is computed  *)
(* character by character.                                                   *)

Spelling ==
    << <<"order date (DateOrders)",
          <<"o", "r", "d", "e", "r", " ", "d", "a", "t", "e", " ", "(", "D", "a", "t", "e", "O", "r", "d", "e", "r", "s", ")">>>>,
       <<"shipping date (DateOrders)",
          <<"s", "h", "i", "p", "p", "i", "n", "g", " ", "d", "a", "t", "e", " ", "(", "D", "a", "t", "e", "O", "r", "d", "e", "r", "s", ")">>>>,
       <<"Days for shipping (real)",
          <<"D", "a", "y", "s", " ", "f", "o", "r", " ", "s", "h", "i", "p", "p", "i", "n", "g", " ", "(", "r", "e", "a", "l", ")">>>>,
       <<"Order Region",
          <<"O", "r", "d", "e", "r", " ", "R", "e", "g", "i", "o", "n">>>>,
       <<"Category Name",
          <<"C", "a", "t", "e", "g", "o", "r", "y", " ", "N", "a", "m", "e">>>>,
       <<"Customer Segment",
          <<"C", "u", "s", "t", "o", "m", "e", "r", " ", "S", "e", "g", "m", "e", "n", "t">>>>,
       <<"Shipping Mode",
          <<"S", "h", "i", "p", "p", "i", "n", "g", " ", "M", "o", "d", "e">>>>,
       <<"Sales",
          <<"S", "a", "l", "e", "s">>>>,
       <<"Order Profit Per Order",
          <<"O", "r", "d", "e", "r", " ", "P", "r", "o", "f", "i", "t", " ", "P", "e", "r", " ", "O", "r", "d", "e", "r">>>>,
       <<"Late_delivery_risk",
          <<"L", "a", "t", "e", "_", "d", "e", "l", "i", "v", "e", "r", "y", "_", "r", "i", "s", "k">>>>,
       <<"Order Id",
          <<"O", "r", "d", "e", "r", " ", "I", "d">>>>,
       <<"Customer Password",
          <<"C", "u", "s", "t", "o", "m", "e", "r", " ", "P", "a", "s", "s", "w", "o", "r", "d">>>>,
       <<"order_date",
          <<"o", "r", "d", "e", "r", "_", "d", "a", "t", "e">>>>,
       <<"shipping_date",
          <<"s", "h", "i", "p", "p", "i", "n", "g", "_", "d", "a", "t", "e">>>>,
       <<"lead_time_days",
          <<"l", "e", "a", "d", "_", "t", "i", "m", "e", "_", "d", "a", "y", "s">>>>,
       <<"order_date_dateorders",
          <<"o", "r", "d", "e", "r", "_", "d", "a", "t", "e", "_", "d", "a", "t", "e", "o", "r", "d", "e", "r", "s">>>>,
       <<"shipping_date_dateorders",
          <<"s", "h", "i", "p", "p", "i", "n", "g", "_", "d", "a", "t", "e", "_", "d", "a", "t", "e", "o", "r", "d", "e", "r", "s">>>>,
       <<"days_for_shipping_real",
          <<"d", "a", "y", "s", "_", "f", "o", "r", "_", "s", "h", "i", "p", "p", "i", "n", "g", "_", "r", "e", "a", "l">>>>,
       <<"order_region",
          <<"o", "r", "d", "e", "r", "_", "r", "e", "g", "i", "o", "n">>>>,
       <<"category_name",
          <<"c", "a", "t", "e", "g", "o", "r", "y", "_", "n", "a", "m", "e">>>>,
       <<"customer_segment",
          <<"c", "u", "s", "t", "o", "m", "e", "r", "_", "s", "e", "g", "m", "e", "n", "t">>>>,
       <<"shipping_mode",
          <<"s", "h", "i", "p", "p", "i", "n", "g", "_", "m", "o", "d", "e">>>>,
       <<"sales",
          <<"s", "a", "l", "e", "s">>>>,
       <<"order_profit_per_order",
          <<"o", "r", "d", "e", "r", "_", "p", "r", "o", "f", "i", "t", "_", "p", "e", "r", "_", "o", "r", "d", "e", "r">>>>,
       <<"late_delivery_risk",
          <<"l", "a", "t", "e", "_", "d", "e", "l", "i", "v", "e", "r", "y", "_", "r", "i", "s", "k">>>>,
       <<"order_id",
          <<"o", "r", "d", "e", "r", "_", "i", "d">>>> >>

Chars(name) == Spelling[CHOOSE i \in DOMAIN Spelling : Spelling[i][1] = name][2]
Text(chars) == Spelling[CHOOSE i \in DOMAIN Spelling : Spelling[i][2] = chars][1]

UpperAlpha == <<"A","B","C","D","E","F","G","H","I","J","K","L","M",
                "N","O","P","Q","R","S","T","U","V","W","X","Y","Z">>
LowerAlpha == <<"a","b","c","d","e","f","g","h","i","j","k","l","m",
                "n","o","p","q","r","s","t","u","v","w","x","y","z">>
Digits == {"0","1","2","3","4","5","6","7","8","9"}

\* the regex classes \w and \s over the characters of the model
WordChars == Range(UpperAlpha) \cup Range(LowerAlpha) \cup Digits \cup {"_"}
IsWordChar(ch) == ch \in WordChars
IsSpaceChar(ch) == ch = " "

\* .str.lower()
LowerChar(ch) ==
    IF \E i \in DOMAIN UpperAlpha : UpperAlpha[i] = ch
    THEN LowerAlpha[CHOOSE i \in DOMAIN UpperAlpha : UpperAlpha[i] = ch]
    ELSE ch
str_lower(cs) == [i \in DOMAIN cs |-> LowerChar(cs[i])]

\* .str.replace(r"[^\w\s]", "", regex=True)
KeepWordOrSpace(ch) == IsWordChar(ch) \/ IsSpaceChar(ch)
str_remove_punct(cs) == SelectRows(cs, KeepWordOrSpace)

\* .str.replace(" ", "_")
str_replace_space(cs) == [i \in DOMAIN cs |-> IF cs[i] = " " THEN "_" ELSE cs[i]]

\* .str.strip()
RECURSIVE str_strip(_)
str_strip(cs) ==
    IF cs = <<>> THEN cs
    ELSE IF IsSpaceChar(Head(cs)) THEN str_strip(Tail(cs))
    ELSE IF IsSpaceChar(cs[Len(cs)]) THEN str_strip(SubSeq(cs, 1, Len(cs) - 1))
    ELSE cs

NormalizeName(name) ==
    Text(str_strip(str_replace_space(str_remove_punct(str_lower(Chars(name))))))

----------------------------------------------------------------------------
(* DataFrame helpers *)

Columns(df) == DOMAIN df.dtypes
Cells(rows, c) == [i \in DOMAIN rows |-> rows[i][c]]
Column(df, c) == Cells(df.rows, c)
select_dtypes(df, kind) == {c \in Columns(df) : df.dtypes[c] = kind}

\* Series.ffill(): a missing cell takes the last valid cell before it, if any.
ffill(s) ==
    [i \in DOMAIN s |->
        IF ~ IsNull(s[i]) THEN s[i]
        ELSE IF \A j \in 1..(i - 1) : IsNull(s[j]) THEN None
        ELSE s[CHOOSE j \in 1..(i - 1) :
                 ~ IsNull(s[j]) /\ \A k \in (j + 1)..(i - 1) : IsNull(s[k])]]

\* Series.fillna(scalar) and Series.fillna(other series, aligned on the index)
fillna(s, v) == [i \in DOMAIN s |-> IF IsNull(s[i]) THEN Some(v) ELSE s[i]]
fillna_series(s, other) == [i \in DOMAIN s |-> IF IsNull(s[i]) THEN other[i] ELSE s[i]]

\* Variant: no clipping.
clip_none(s, lo) == s

\* Series.clip(lower=lo): missing cells stay missing.
clip_lower(s, lo) ==
    [i \in DOMAIN s |-> IF IsNull(s[i]) THEN None ELSE Some(Max2(Val(s[i]), lo))]

\* Series.dropna().unique() as a set
Unique(s) == {Val(s[i]) : i \in {j \in DOMAIN s : ~ IsNull(s[j])}}

ValueCount(s, v) == Cardinality({i \in DOMAIN s : s[i] = Some(v)})

\* Variant: every non-missing value, whatever its frequency.
mode_any(s) == SortSet(Unique(s), StrLess)

\* Series.mode(): the most frequent non-missing value(s), sorted ascending;
\* empty when the column has no non-missing value.
mode(s) ==
    With({v \in Unique(s) : \A w \in Unique(s) : ValueCount(s, v) >= ValueCount(s, w)},
         LAMBDA top : SortSet(top, StrLess))

----------------------------------------------------------------------------
(* build_dataset(): the cleaning pipeline, step by step.  Every step takes  *)
(* and returns a table.                                                      *)

drop_cols ==
    {"Customer Password", "Customer Street", "Customer Zipcode", "Order zipcode",
     "Product Image", "Product Description", "Product Card Id"}

\* df.drop(columns=[c for c in drop_cols if c in df.columns])
DropColumns(df) ==
    [dtypes |-> [c \in Columns(df) \ drop_cols |-> df.dtypes[c]],
     rows   |-> [i \in DOMAIN df.rows |->
                    [c \in Columns(df) \ drop_cols |-> df.rows[i][c]]]]

\* for c in num_cols: df_clean[c] = df_clean[c].ffill().fillna(0)
ImputeNumeric(df) ==
    With([c \in select_dtypes(df, "number") |-> fillna(ffill(Column(df, c)), 0)],
         LAMBDA filled :
            [df EXCEPT !.rows =
                [i \in DOMAIN df.rows |->
                    [c \in Columns(df) |->
                        IF c \in DOMAIN filled THEN filled[c][i] ELSE df.rows[i][c]]]])

\* df_clean[c].mode() of every object column
Modes(df) == [c \in select_dtypes(df, "object") |-> mode(Column(df, c))]

\* mode()[0] raises KeyError for a column whose mode() is empty
ModeRaises(df) == \E c \in select_dtypes(df, "object") : mode(Column(df, c)) = <<>>

\* Variant: the categorical columns are left as they are.
ImputeCategorical_skip(df) == df

\* for c in cat_cols: df_clean[c] = df_clean[c].fillna(df_clean[c].mode()[0])
ImputeCategorical(df) ==
    With(Modes(df),
         LAMBDA m :
            [df EXCEPT !.rows =
                [i \in DOMAIN df.rows |->
                    [c \in Columns(df) |->
                        IF c \in DOMAIN m /\ IsNull(df.rows[i][c]) THEN Some(m[c][1])
                        ELSE df.rows[i][c]]]])

\* df[name] = series
AssignColumn(df, name, series, dtype) ==
    [dtypes |-> [c \in Columns(df) \cup {name} |-> IF c = name THEN dtype ELSE df.dtypes[c]],
     rows   |-> [i \in DOMAIN df.rows |->
                    [c \in Columns(df) \cup {name} |->
                        IF c = name THEN series[i] ELSE df.rows[i][c]]]]

\* df_clean["order_date"] = pd.to_datetime(df_clean["order date (DateOrders)"], ...)
\* df_clean["shipping_date"] = pd.to_datetime(df_clean["shipping date (DateOrders)"], ...)
ParseDates(df) ==
    With(AssignColumn(df, "order_date",
            [i \in DOMAIN df.rows |-> to_datetime(df.rows[i]["order date (DateOrders)"])],
            "datetime"),
         LAMBDA d :
            AssignColumn(d, "shipping_date",
                [i \in DOMAIN d.rows |-> to_datetime(d.rows[i]["shipping date (DateOrders)"])],
                "datetime"))

\* df_clean["lead_time_days"] = (shipping_date - order_date).dt.days
\* df_clean["lead_time_days"] = lead_time_days.fillna(days for shipping).clip(lower=0)
LeadTime(df) ==
    With(AssignColumn(df, "lead_time_days",
            [i \in DOMAIN df.rows |->
                TimedeltaDays(df.rows[i]["shipping_date"], df.rows[i]["order_date"])],
            "number"),
         LAMBDA d :
            AssignColumn(d, "lead_time_days",
                clip_lower(fillna_series(Column(d, "lead_time_days"),
                                         Column(d, "Days for shipping (real)")), 0),
                "number"))

\* df_clean.columns = df_clean.columns.str.lower()....str.strip()
NormalizeColumns(df) ==
    With([c \in Columns(df) |-> NormalizeName(c)],
         LAMBDA norm :
            With([n \in {norm[c] : c \in Columns(df)} |->
                     CHOOSE c \in Columns(df) : norm[c] = n],
                 LAMBDA old :
                    [dtypes |-> [n \in DOMAIN old |-> df.dtypes[old[n]]],
                     rows   |-> [i \in DOMAIN df.rows |->
                                    [n \in DOMAIN old |-> df.rows[i][old[n]]]]]))

\* df_clean["order_month"] = df_clean["order_date"].dt.to_period("M")
OrderMonth(df) ==
    AssignColumn(df, "order_month",
                 [i \in DOMAIN df.rows |-> to_period_M(df.rows[i]["order_date"])],
                 "period")

\* The body of build_dataset() applied to the table load_raw() returned:
\* [raised |-> "KeyError"] or [raised |-> "", value |-> the cleaned table].
BuildBody(raw) ==
    With(DropColumns(raw), LAMBDA dropped :
    With(ImputeNumeric(dropped), LAMBDA numeric :
        IF ModeRaises(numeric) THEN [raised |-> "KeyError", value |-> None]
        ELSE
    With(ImputeCategorical(numeric), LAMBDA imputed :
    With(ParseDates(imputed), LAMBDA dated :
    With(LeadTime(dated), LAMBDA timed :
    With(NormalizeColumns(timed), LAMBDA named :
        [raised |-> "", value |-> Materialize(OrderMonth(named))]))))))

----------------------------------------------------------------------------
(* Aggregations over the filtered view (a sequence of cleaned rows) *)

Pow10(d) == IF d = 0 THEN 1 ELSE IF d = 1 THEN 10 ELSE IF d = 2 THEN 100 ELSE 1000

\* IEEE-754 binary64, as far as the means of the script need it.  A positive
\* double is [bits, exp]: the binary digits of an integer, most significant
\* digit first, and a power of two; its value is that integer times 2^exp.

\* the binary digits of a natural number below 2^31 (<<>> for 0)
BitsOfNat(n) ==
    With(Cardinality({k \in 0..30 : 2^k <= n}), LAMBDA len :
        [i \in 1..len |-> (n \div 2^(len - i)) % 2])

\* the same on `len` digits, zeros in front
PaddedBits(n, len) == [i \in 1..len |-> (n \div 2^(len - i)) % 2]

\* the natural number of at most 31 binary digits
NatOfBits(bits) ==
    LET F[i \in 0..Len(bits)] == IF i = 0 THEN 0 ELSE 2 * F[i - 1] + bits[i]
    IN  F[Len(bits)]

ChunkDigits == 16   \* binary digits of a quotient produced at a time
FracChunks == 6     \* chunks after the point of a quotient before rounding

\* Long division of r by q (0 <= r < q < 2^15): the first n chunks of the
\* binary digits after the point of r / q, and the remainder left.
FracBits(r, q, n) ==
    LET F[i \in 0..n] ==
            IF i = 0 THEN [bits |-> <<>>, rem |-> r]
            ELSE With(F[i - 1], LAMBDA prev :
                    [bits |-> prev.bits \o PaddedBits((prev.rem * 2^ChunkDigits) \div q,
                                                      ChunkDigits),
                     rem  |-> (prev.rem * 2^ChunkDigits) % q])
    IN  F[n]

LeadingZeros(bits) ==
    Cardinality({i \in DOMAIN bits : \A j \in 1..i : bits[j] = 0})

\* bits + 1
Increment(bits) ==
    With(bits, LAMBDA b :
    With(Cardinality({i \in DOMAIN b : \E j \in i..Len(b) : b[j] = 0}), LAMBDA k :
        IF k = 0 THEN <<1>> \o [i \in DOMAIN b |-> 0]
        ELSE [i \in DOMAIN b |-> IF i < k THEN b[i] ELSE IF i = k THEN 1 ELSE 0]))

Precision == 53     \* significant binary digits of a double

\* Rounding to Precision significant digits, to nearest, halves to even: `bits`
\* times 2^exp, plus something below the last digit when `sticky`.
RoundTo53(bits, exp, sticky) ==
    With(bits, LAMBDA b :
    With(LeadingZeros(b), LAMBDA z :
        IF Len(b) - z <= Precision
        THEN [bits |-> SubSeq(b, z + 1, Len(b)), exp |-> exp]
        ELSE With(SubSeq(b, z + 1, z + Precision), LAMBDA kept :
             [bits |-> IF /\ b[z + Precision + 1] = 1
                          /\ \/ sticky
                             \/ kept[Precision] = 1
                             \/ \E i \in (z + Precision + 2)..Len(b) : b[i] = 1
                       THEN Increment(kept) ELSE kept,
              exp  |-> exp + (Len(b) - z - Precision)])))

\* the double p / q for integers p > 0 and 0 < q < 2^15
FloatDiv(p, q) ==
    With(FracBits(p % q, q, FracChunks), LAMBDA f :
        RoundTo53(BitsOfNat(p \div q) \o f.bits, 0 - FracChunks * ChunkDigits, f.rem # 0))

LimbDigits == 20    \* binary digits multiplied at a time

\* the double x * c for an integer 0 < c <= 1000: the exact product, three
\* limbs of the digits of x at a time, rounded
FloatMul(x, c) ==
    With(PaddedBits(0, 3 * LimbDigits - Len(x.bits)) \o x.bits, LAMBDA b :
    With(NatOfBits(SubSeq(b, 2 * LimbDigits + 1, 3 * LimbDigits)) * c, LAMBDA t0 :
    With(NatOfBits(SubSeq(b, LimbDigits + 1, 2 * LimbDigits)) * c
            + t0 \div 2^LimbDigits, LAMBDA t1 :
    With(NatOfBits(SubSeq(b, 1, LimbDigits)) * c + t1 \div 2^LimbDigits, LAMBDA t2 :
        RoundTo53(BitsOfNat(t2) \o PaddedBits(t1 % 2^LimbDigits, LimbDigits)
                                \o PaddedBits(t0 % 2^LimbDigits, LimbDigits),
                  x.exp, FALSE)))))

\* numpy.rint of a positive double below 2^31: to the nearest integer,
\* halves to even
Rint(x) ==
    With(x.bits, LAMBDA b :
    With(Len(b) + x.exp, LAMBDA n :
        IF x.exp >= 0 THEN NatOfBits(b \o PaddedBits(0, x.exp))
        ELSE IF n < 0 THEN 0
        ELSE With(NatOfBits(SubSeq(b, 1, n)), LAMBDA k :
             IF b[n + 1] = 0 THEN k
             ELSE IF \E i \in (n + 2)..Len(b) : b[i] = 1 THEN k + 1
             ELSE IF k % 2 = 0 THEN k ELSE k + 1)))

\* numpy's round(x, d) for x the double p / q (q > 0), in units of 10^-d:
\* rint(x * 10^d) / 10^d
RoundDecimals(p, q, d) ==
    IF p = 0 THEN 0
    ELSE IF p > 0 THEN Rint(FloatMul(FloatDiv(p, q), Pow10(d)))
    ELSE 0 - Rint(FloatMul(FloatDiv(0 - p, q), Pow10(d)))

\* Series.sum(): missing cells are skipped, 0 for an empty series
Sum(rows, c) ==
    SumTo(Len(rows), LAMBDA i : IF IsNull(rows[i][c]) THEN 0 ELSE Val(rows[i][c]))

\* Series.count(): the number of non-missing cells
Count(rows, c) == Cardinality({i \in DOMAIN rows : ~ IsNull(rows[i][c])})

\* round(Series.mean(), d) and .agg("mean").round(d), in units of 10^-d:
\* NaN (None) for an empty series, else the double sum / count rounded as
\* numpy rounds it.
MeanRound(rows, c, d) ==
    IF Count(rows, c) = 0 THEN None
    ELSE Some(RoundDecimals(Sum(rows, c), Count(rows, c), d))

\* the unrounded mean fed to a chart: the double sum / count, written as the
\* pair <<sum, count>> of its operands
MeanExact(rows, c) ==
    IF Count(rows, c) = 0 THEN None ELSE Some(<<Sum(rows, c), Count(rows, c)>>)

\* Series.nunique()
NUnique(rows, c) == Cardinality({Val(rows[i][c]) : i \in {j \in DOMAIN rows : ~ IsNull(rows[j][c])}})

DigitChars == <<"0", "1", "2", "3", "4", "5", "6", "7", "8", "9">>

\* the decimal digits of a natural number below 2^31
DecimalDigits(n) ==
    With(Max2(1, Cardinality({k \in 0..9 : 10^k <= n})), LAMBDA len :
        [i \in 1..len |-> (n \div 10^(len - i)) % 10])

\* the characters of the digits, a comma before every group of three
Grouped(ds) ==
    With(Len(ds) + (Len(ds) - 1) \div 3, LAMBDA outlen :
        [j \in 1..outlen |->
            IF (outlen - j) % 4 = 3 THEN ","
            ELSE DigitChars[ds[Len(ds) - ((outlen - j) - (outlen - j) \div 4)] + 1]])

\* f"{x:,.0f}" of a whole-number double, as its sequence of characters
FormatWhole(x) ==
    IF x < 0 THEN <<"-">> \o Grouped(DecimalDigits(0 - x)) ELSE Grouped(DecimalDigits(x))

\* The group keys of groupby(keycols): the observed key tuples, rows with a
\* missing key dropped.
KeyOf(row, keycols) == [k \in DOMAIN keycols |-> Val(row[keycols[k]])]
HasKey(row, keycols) == \A k \in DOMAIN keycols : ~ IsNull(row[keycols[k]])
GroupKeys(rows, keycols) ==
    {KeyOf(rows[i], keycols) : i \in {j \in DOMAIN rows : HasKey(rows[j], keycols)}}
GroupRows(rows, keycols, key) ==
    SelectRows(rows, LAMBDA r : HasKey(r, keycols) /\ KeyOf(r, keycols) = key)

\* groupby(keycols).agg(...): one row Agg(key, group) per group, in the
\* ascending order of the keys
GroupBy(rows, keycols, less(_, _), Agg(_, _)) ==
    With(SortSet(GroupKeys(rows, keycols), less), LAMBDA keys :
        [k \in DOMAIN keys |->
            With(GroupRows(rows, keycols, keys[k]), LAMBDA g : Agg(keys[k], g))])

\* the orders a finite set can be listed in
Orderings(S) ==
    {p \in [1..Cardinality(S) -> S] : \A i, j \in 1..Cardinality(S) : i # j => p[i] # p[j]}

\* Variant: ascending=False forgotten.
SortAscending(table, by) ==
    With(table, LAMBDA t :
    With(SortSet(DOMAIN t,
            LAMBDA i, j : t[i][by] < t[j][by] \/ (t[i][by] = t[j][by] /\ i < j)),
         LAMBDA perm : {[k \in DOMAIN t |-> t[perm[k]]]}))

\* DataFrame.sort_values(by, ascending=False) of a sequence of rows on an
\* integer column.  The default sort kind is numpy's quicksort, which is
\* not stable: the order it leaves rows of equal key in depends on the
\* number of rows and on the numpy build.  The result is the set of the
\* orders the call may return: the keys descending, the rows of each key in
\* any order.
SortDescending(table, by) ==
    With(table, LAMBDA t :
    With(SortSet({t[i][by] : i \in DOMAIN t}, LAMBDA a, b : a > b), LAMBDA keys :
        LET F[k \in 0..Len(keys)] ==
                IF k = 0 THEN {<<>>}
                ELSE {s \o [n \in DOMAIN p |-> t[p[n]]] :
                        s \in F[k - 1],
                        p \in Orderings({i \in DOMAIN t : t[i][by] = keys[k]})}
        IN  F[Len(keys)]))

\* sort_values([by1, by2], ascending=[False, False]): a stable lexsort
SortDescending2(table, by1, by2) ==
    With(table, LAMBDA t :
    With(SortSet(DOMAIN t,
            LAMBDA i, j :
                \/ t[i][by1] > t[j][by1]
                \/ t[i][by1] = t[j][by1] /\ t[i][by2] > t[j][by2]
                \/ t[i][by1] = t[j][by1] /\ t[i][by2] = t[j][by2] /\ i < j),
         LAMBDA perm : [k \in DOMAIN t |-> t[perm[k]]]))

----------------------------------------------------------------------------
(* The panels of the three tabs, computed from the filtered view `data` *)

\* the four st.metric values of the Executive Summary
Kpis(rows) ==
    [total_sales   |-> FormatWhole(Sum(rows, "sales")),
     total_profit  |-> FormatWhole(Sum(rows, "order_profit_per_order")),
     avg_lead_time |-> MeanRound(rows, "lead_time_days", 2),
     late_risk     |-> MeanRound(rows, "late_delivery_risk", 3)]

\* data.groupby("order_month").agg(...).reset_index()
Monthly(rows) ==
    GroupBy(rows, <<"order_month">>, LAMBDA a, b : PeriodLess(a[1], b[1]),
        LAMBDA key, g :
            [order_month   |-> key[1],
             total_sales   |-> Sum(g, "sales"),
             avg_lead_time |-> MeanExact(g, "lead_time_days"),
             orders        |-> NUnique(g, "order_id")])

SnapshotColumns ==
    {"order_id", "order_date", "shipping_date", "order_region", "customer_segment",
     "category_name", "lead_time_days", "sales", "order_profit_per_order",
     "late_delivery_risk"}

SnapshotRows == 20

\* data[[...]].head(20)
Snapshot(rows) ==
    HeadRows([i \in DOMAIN rows |-> [c \in SnapshotColumns |-> rows[i][c]]], SnapshotRows)

\* `if not data.empty:` the monthly charts and the snapshot; `else:`
\* st.info("No data available for current filter selection.")
TrendPanel(rows) ==
    IF rows # <<>>
    THEN [info |-> FALSE, monthly |-> Monthly(rows), snapshot |-> Snapshot(rows)]
    ELSE [info |-> TRUE, monthly |-> <<>>, snapshot |-> <<>>]

\* The panels that show an explicit "no data" message: st.info is called in
\* the else branch of the trend panel and nowhere else.
Notices(rows) == IF rows # <<>> THEN {} ELSE {"trend"}

\* data["lead_time_days"].value_counts().sort_index()
LeadTimeHistogram(rows) ==
    With(SortSet(Unique(Cells(rows, "lead_time_days")), IntLess),
         LAMBDA vals :
            [k \in DOMAIN vals |->
                [lead_time_days |-> vals[k],
                 count |-> ValueCount(Cells(rows, "lead_time_days"), vals[k])]])

\* pd.crosstab(region, segment, values=late_delivery_risk, aggfunc="mean")
\*   .round(3).sort_index(): a cell with no record is NaN.
RiskCrosstab(rows) ==
    With(GroupKeys(rows, <<"order_region", "customer_segment">>), LAMBDA keys :
        [index   |-> SortSet({k[1] : k \in keys}, StrLess),
         columns |-> SortSet({k[2] : k \in keys}, StrLess),
         cells   |-> [k \in {j[1] : j \in keys} \X {j[2] : j \in keys} |->
                        MeanRound(GroupRows(rows, <<"order_region", "customer_segment">>, k),
                                  "late_delivery_risk", 3)]])

\* data.groupby(["order_region", "shipping_mode"]).agg(...).round(2).reset_index()
lt_region_mode(rows) ==
    GroupBy(rows, <<"order_region", "shipping_mode">>, KeyLess,
        LAMBDA key, g :
            [order_region  |-> key[1],
             shipping_mode |-> key[2],
             avg_lead_time |-> MeanRound(g, "lead_time_days", 2),
             orders        |-> NUnique(g, "order_id")])

\* data.groupby(["category_name", "customer_segment"]).agg(...).round(2).reset_index()
cat_seg(rows) ==
    GroupBy(rows, <<"category_name", "customer_segment">>, KeyLess,
        LAMBDA key, g :
            [category_name    |-> key[1],
             customer_segment |-> key[2],
             total_sales      |-> Sum(g, "sales"),
             total_profit     |-> Sum(g, "order_profit_per_order"),
             avg_margin       |-> MeanRound(g, "order_profit_per_order", 2),
             orders           |-> NUnique(g, "order_id")])

TopRows == 15

\* cat_seg.sort_values("total_sales", ascending=False).head(15): the tables
\* the call may show
TopCatSeg(rows) ==
    With(SortDescending(cat_seg(rows), "total_sales"), LAMBDA sorted :
        {HeadRows(s, TopRows) : s \in sorted})

\* data.groupby("order_region").agg(...).round(2).reset_index()
region_profit(rows) ==
    GroupBy(rows, <<"order_region">>, KeyLess,
        LAMBDA key, g :
            [order_region         |-> key[1],
             total_sales          |-> Sum(g, "sales"),
             total_profit         |-> Sum(g, "order_profit_per_order"),
             avg_profit_per_order |-> MeanRound(g, "order_profit_per_order", 2)])

HighDelayRows == 15

\* data.groupby(["order_region", "shipping_mode"]).agg(...).round(3).reset_index()
\*   .sort_values(["late_risk", "total_sales"], ascending=[False, False]).head(15)
high_delay(rows) ==
    HeadRows(
        SortDescending2(
            GroupBy(rows, <<"order_region", "shipping_mode">>, KeyLess,
                LAMBDA key, g :
                    [order_region  |-> key[1],
                     shipping_mode |-> key[2],
                     total_sales   |-> Sum(g, "sales"),
                     late_risk     |-> Val(MeanRound(g, "late_delivery_risk", 3)),
                     avg_lead_time |-> MeanRound(g, "lead_time_days", 3)]),
            "late_risk", "total_sales"),
        HighDelayRows)

\* Everything the three tabs show for the filtered view: one record for
\* every Top 15 table sort_values may leave.
Render(rows) ==
    With([shown          |-> TRUE,
          notices        |-> Notices(rows),
          kpis           |-> Kpis(rows),
          trend          |-> TrendPanel(rows),
          lead_hist      |-> LeadTimeHistogram(rows),
          risk_crosstab  |-> RiskCrosstab(rows),
          lt_region_mode |-> lt_region_mode(rows),
          region_profit  |-> region_profit(rows),
          high_delay     |-> high_delay(rows)], LAMBDA drawn :
        {[top_cat_seg |-> top] @@ drawn : top \in TopCatSeg(rows)})

\* nothing is drawn when the script stopped on an exception before the tabs
NoPanels == [shown |-> FALSE]

----------------------------------------------------------------------------
(* The memoised data layer.  st.cache_data stores the return value of a     *)
(* call that returns and stores nothing for a call that raises; a later     *)
(* call with the same (here: no) arguments returns the stored value         *)
(* without running the body.                                                *)

\* Variant: the store keeps the remote table although the body raised.
load_raw_keeps_failure(cache, file) ==
    IF cache # None
    THEN [raised |-> "", value |-> Val(cache), cache |-> cache, entered |-> FALSE]
    ELSE [raised |-> "NameError", value |-> None, cache |-> Some(file), entered |-> TRUE]

\* @st.cache_data def load_raw(): a hit returns the stored table; on a miss
\* the body runs and `requests.get(url)` (line 15) raises NameError, as
\* `requests` is bound neither in the module nor in builtins.  Lines 16-18
\* are not reached, and nothing is stored.
\* [raised, value, cache: the store after the call, entered: the body ran]
load_raw(cache, file) ==
    IF cache # None
    THEN [raised |-> "", value |-> Val(cache), cache |-> cache, entered |-> FALSE]
    ELSE [raised |-> "NameError", value |-> None, cache |-> None, entered |-> TRUE]

\* @st.cache_data def build_dataset(): a hit returns the stored table and
\* runs nothing; on a miss the body runs, and its result is stored only
\* when it returns.
\* [raised, value, bcache / rcache: the two stores after the call,
\*  entered: the body of load_raw() ran, computed: the body of
\*  build_dataset() returned]
build_dataset(bcache, rcache, file) ==
    IF bcache # None
    THEN [raised |-> "", value |-> Val(bcache), bcache |-> bcache, rcache |-> rcache,
          entered |-> FALSE, computed |-> FALSE]
    ELSE With(load_raw(rcache, file), LAMBDA lr :
         IF lr.raised # ""
         THEN [raised |-> lr.raised, value |-> None, bcache |-> None, rcache |-> lr.cache,
               entered |-> lr.entered, computed |-> FALSE]
         ELSE With(BuildBody(lr.value), LAMBDA b :
              IF b.raised # ""
              THEN [raised |-> b.raised, value |-> None, bcache |-> None,
                    rcache |-> lr.cache, entered |-> lr.entered, computed |-> FALSE]
              ELSE [raised |-> "", value |-> b.value, bcache |-> Some(b.value),
                    rcache |-> lr.cache, entered |-> lr.entered, computed |-> TRUE]))

----------------------------------------------------------------------------
(* Sidebar filters *)

\* sorted(df_clean[c].dropna().unique())
Options(df, c) == SortSet(Unique(Column(df, c)), StrLess)

\* st.sidebar.multiselect(label, options=options, default=options): the
\* value is the default when the widget is created (chosen = <<>>) and the
\* user's selection afterwards.  The three values, as sets.
Multiselects(df, chosen) ==
    IF chosen = <<>>
    THEN << Range(Options(df, "order_region")),
            Range(Options(df, "category_name")),
            Range(Options(df, "customer_segment")) >>
    ELSE chosen

\* Series.isin(selection)
isin(cell, selection) == ~ IsNull(cell) /\ Val(cell) \in selection

\* Variant: a row is kept when any one of the three memberships holds.
mask_any(row, rf, cf, sf) ==
    \/ isin(row["order_region"], rf)
    \/ isin(row["category_name"], cf)
    \/ isin(row["customer_segment"], sf)

\* mask = region.isin(...) & category.isin(...) & segment.isin(...)
mask(row, rf, cf, sf) ==
    /\ isin(row["order_region"], rf)
    /\ isin(row["category_name"], cf)
    /\ isin(row["customer_segment"], sf)

\* data = df_clean[mask]
FilteredView(df, rf, cf, sf) ==
    SelectRows(df.rows, LAMBDA row : mask(row, rf, cf, sf))

----------------------------------------------------------------------------
(* The remote file: the raw tables the model is run on *)

\* column dtypes as pandas reads them from the parquet schema
RawDtypes ==
    ("order date (DateOrders)" :> "object") @@ ("shipping date (DateOrders)" :> "object")
    @@ ("Days for shipping (real)" :> "number") @@ ("Order Region" :> "object")
    @@ ("Category Name" :> "object") @@ ("Customer Segment" :> "object")
    @@ ("Shipping Mode" :> "object") @@ ("Sales" :> "number")
    @@ ("Order Profit Per Order" :> "number") @@ ("Late_delivery_risk" :> "number")
    @@ ("Order Id" :> "number") @@ ("Customer Password" :> "object")

RawRow(id, od, sd, dfs, region, category, segment, shipmode, sales, profit, risk) ==
    ("order date (DateOrders)" :> od) @@ ("shipping date (DateOrders)" :> sd)
    @@ ("Days for shipping (real)" :> dfs) @@ ("Order Region" :> region)
    @@ ("Category Name" :> category) @@ ("Customer Segment" :> segment)
    @@ ("Shipping Mode" :> shipmode) @@ ("Sales" :> sales)
    @@ ("Order Profit Per Order" :> profit) @@ ("Late_delivery_risk" :> risk)
    @@ ("Order Id" :> Some(id)) @@ ("Customer Password" :> Some("pw"))

Table(rows) == [dtypes |-> RawDtypes, rows |-> rows]

MaxRows == 2        \* rows of the tables that vary dates or categorical fields
MaxModeRows == 4    \* rows of the tables that vary the region alone
TopGroups == 16     \* rows (= category x segment groups) of the large tables
MaxRuns == 3        \* executions of the script in one process

\* two line items per order; shipping mode, profit and risk alternate
OrderIdAt(i) == (i + 1) \div 2
ShipModeAt(i) == IF i % 2 = 1 THEN Some("Standard Class") ELSE Some("First Class")
ProfitAt(i) == IF i % 2 = 1 THEN Some(2025) ELSE Some(0 - 1050)
RiskAt(i) == Some(i % 2)

\* tables whose order date, shipping date and "Days for shipping (real)" vary
DateChoices ==
    {None, Some("1/1/2018 6:00"), Some("1/4/2018 12:00"), Some("2/30/2018 0:00")}
    \X { <<None, Some(2)>>,
         <<Some("1/4/2018 0:00"), None>>,
         <<Some("1/4/2018 0:00"), Some(0 - 1)>> }

DateTable(ch) ==
    Table([i \in DOMAIN ch |->
        RawRow(OrderIdAt(i), ch[i][1], ch[i][2][1], ch[i][2][2],
               Some("Canada"), Some("Toys"), Some("Consumer"),
               ShipModeAt(i), Some(10050), ProfitAt(i), RiskAt(i))])

\* tables whose region, category and segment vary (with missing values)
CatChoices ==
    { <<Some("Canada"), Some("Toys"), Some("Consumer")>>,
      <<Some("Oceania"), Some("Cleats"), Some("Corporate")>>,
      <<Some("Canada"), Some("Cleats"), Some("Corporate")>>,
      <<None, Some("Toys"), Some("Consumer")>>,
      <<Some("Oceania"), None, Some("Corporate")>>,
      <<Some("Canada"), Some("Toys"), None>> }

CatTable(ch) ==
    Table([i \in DOMAIN ch |->
        RawRow(OrderIdAt(i), Some("1/1/2018 0:00"), Some("1/4/2018 0:00"), Some(3),
               ch[i][1], ch[i][2], ch[i][3],
               ShipModeAt(i), Some(10050 * i), ProfitAt(i), RiskAt(i))])

\* tables whose region alone varies, long enough for a contest of frequencies
RegionChoices == {None, Some("Canada"), Some("Oceania")}

RegionTable(ch) ==
    Table([i \in DOMAIN ch |->
        RawRow(OrderIdAt(i), Some("2/1/2018 0:00"), Some("2/1/2018 0:00"), None,
               ch[i], Some("Toys"), Some("Consumer"),
               ShipModeAt(i), Some(10050), ProfitAt(i), RiskAt(i))])

\* large tables: one row per (category, segment) pair, more pairs than the
\* top-15 table holds; the sales of row i follow the pattern <<a, m>>
TopCategories == <<"Books", "Cameras", "Cleats", "Golf", "Music", "Toys">>
TopSegments == <<"Consumer", "Corporate", "Home Office", "Small Business">>
SalesPatterns == {<<7, 19>>, <<1, 15>>, <<1, 14>>}

TopTable(pat) ==
    Table([i \in 1..TopGroups |->
        RawRow(i, Some("1/1/2018 0:00"), Some("1/4/2018 0:00"), Some(3),
               Some("Canada"),
               Some(TopCategories[(((i - 1) \div 4) % 6) + 1]),
               Some(TopSegments[((i - 1) % 4) + 1]),
               ShipModeAt(i), Some(1000 * (((i - 1) * pat[1]) % pat[2]) + 550),
               ProfitAt(i), RiskAt(i))])

RawTables ==
    UNION { {DateTable(ch) : ch \in [1..n -> DateChoices]} : n \in 0..MaxRows }
    \cup UNION { {CatTable(ch) : ch \in [1..n -> CatChoices]} : n \in 1..MaxRows }
    \cup UNION { {RegionTable(ch) : ch \in [1..n -> RegionChoices]} : n \in 1..MaxModeRows }

LargeTables == {TopTable(pat) : pat \in SalesPatterns}

----------------------------------------------------------------------------
(* The script *)

NoRun == [outcome |-> "none", entered |-> FALSE, computed |-> FALSE, df_clean |-> None]

Start ==
    /\ rawCache = None
    /\ buildCache = None
    /\ attempts = 0
    /\ lastRun = NoRun
    /\ region_filter = {}
    /\ category_filter = {}
    /\ segment_filter = {}
    /\ data = <<>>
    /\ panels = NoPanels

\* A fresh process: both stores are empty and nothing is displayed.
Init == remote \in RawTables /\ Start

InitLarge == remote \in LargeTables /\ Start

\* Lines 76-281 for a cleaned table and a widget state: the values they
\* leave behind, one for each order sort_values may return.  `chosen` is
\* <<>> when the widgets are created with their defaults, or
\* <<regions, categories, segments>>.
Page(df, chosen) ==
    With(Multiselects(df, chosen), LAMBDA sel :
    With(FilteredView(df, sel[1], sel[2], sel[3]), LAMBDA view :
        {[region_filter |-> sel[1], category_filter |-> sel[2], segment_filter |-> sel[3],
          data |-> view, panels |-> drawn] : drawn \in Render(view)}))

\* One execution of the script from line 1 to the end, as the values it
\* may leave behind.
RunScript(bcache, rcache, file, chosen) ==
    With(build_dataset(bcache, rcache, file), LAMBDA b :
    IF b.raised # ""
    THEN \* the exception at line 74 ends the run: no widget, no tab
         {[rawCache |-> b.rcache, buildCache |-> b.bcache,
           lastRun |-> [outcome |-> b.raised, entered |-> b.entered,
                        computed |-> b.computed, df_clean |-> None],
           region_filter |-> {}, category_filter |-> {}, segment_filter |-> {},
           data |-> <<>>, panels |-> NoPanels]}
    ELSE {[rawCache |-> b.rcache, buildCache |-> b.bcache,
           lastRun |-> [outcome |-> "rendered", entered |-> b.entered,
                        computed |-> b.computed, df_clean |-> Some(b.value)],
           region_filter |-> p.region_filter, category_filter |-> p.category_filter,
           segment_filter |-> p.segment_filter, data |-> p.data, panels |-> p.panels] :
              p \in Page(b.value, chosen)})

Script(chosen) ==
    \E r \in RunScript(buildCache, rawCache, remote, chosen) :
        /\ rawCache' = r.rawCache
        /\ buildCache' = r.buildCache
        /\ attempts' = IF r.lastRun.entered THEN attempts + 1 ELSE attempts
        /\ lastRun' = r.lastRun
        /\ region_filter' = r.region_filter
        /\ category_filter' = r.category_filter
        /\ segment_filter' = r.segment_filter
        /\ data' = r.data
        /\ panels' = r.panels
        /\ remote' = remote

\* A session opens the page, or the user reruns it after the error.  No
\* execution gets as far as creating the widgets (lines 83-91), so every
\* execution starts without widget state.
SessionStart ==
    /\ attempts < MaxRuns
    /\ Script(<<>>)

Next == SessionStart

Spec == Init /\ [][Next]_vars

----------------------------------------------------------------------------
(* The statements behind line 74, applied to their inputs *)

\* build_dataset(), lines 24-72, for df = the table in `remote`
CleanSteps ==
    /\ lastRun = NoRun
    /\ \E b \in {BuildBody(remote)} :
         lastRun' = [outcome  |-> IF b.raised # "" THEN b.raised ELSE "cleaned",
                     entered  |-> FALSE,
                     computed |-> b.raised = "",
                     df_clean |-> IF b.raised # "" THEN None ELSE Some(b.value)]
    /\ UNCHANGED <<remote, rawCache, buildCache, attempts, region_filter,
                   category_filter, segment_filter, data, panels>>

\* lines 76-281 for the cleaned table and a widget state
ShowPage(chosen) ==
    /\ lastRun.df_clean # None
    /\ \E p \in Page(Val(lastRun.df_clean), chosen) :
        /\ lastRun' = [lastRun EXCEPT !.outcome = "rendered"]
        /\ region_filter' = p.region_filter
        /\ category_filter' = p.category_filter
        /\ segment_filter' = p.segment_filter
        /\ data' = p.data
        /\ panels' = p.panels
    /\ UNCHANGED <<remote, rawCache, buildCache, attempts>>

\* the widgets are created with their defaults
PageDefaults == ShowPage(<<>>)

Toggle(selection, option) ==
    IF option \in selection THEN selection \ {option} ELSE selection \cup {option}

\* one option of one multiselect of a rendered page is added or removed
PageSelection ==
    /\ lastRun.outcome = "rendered"
    /\ \/ \E o \in Unique(Column(Val(lastRun.df_clean), "order_region")) :
            ShowPage(<<Toggle(region_filter, o), category_filter, segment_filter>>)
       \/ \E o \in Unique(Column(Val(lastRun.df_clean), "category_name")) :
            ShowPage(<<region_filter, Toggle(category_filter, o), segment_filter>>)
       \/ \E o \in Unique(Column(Val(lastRun.df_clean), "customer_segment")) :
            ShowPage(<<region_filter, category_filter, Toggle(segment_filter, o)>>)

NextSteps == CleanSteps \/ PageDefaults \/ PageSelection

SpecSteps == Init /\ [][NextSteps]_vars

\* the same on the large tables
SpecStepsLarge == InitLarge /\ [][NextSteps]_vars

----------------------------------------------------------------------------
(* Properties.  They are stated on the state variables, in terms of the     *)
(* records themselves rather than of the operators that compute them.        *)

Rendered == lastRun.outcome = "rendered"

\* the rows of the cleaned table the last run worked on
CleanRows == Val(lastRun.df_clean).rows

\* the distinct non-missing values of a cleaned column
AllValues(c) == {Val(CleanRows[i][c]) : i \in {j \in DOMAIN CleanRows : CleanRows[j][c] # None}}

Selected(row) ==
    /\ row["order_region"] # None /\ row["order_region"][1] \in region_filter
    /\ row["category_name"] # None /\ row["category_name"][1] \in category_filter
    /\ row["customer_segment"] # None /\ row["customer_segment"][1] \in segment_filter

\* C1: every record of the filtered view has its region, category and
\* segment in the three selected sets, every cleaned record with all three
\* memberships is in the view, and the view has as many rows as there are
\* such records (so a record left out fails at least one membership).
C1_FilterCorrect ==
    Rendered =>
        /\ \A i \in DOMAIN data : Selected(data[i]) /\ data[i] \in Range(CleanRows)
        /\ \A j \in DOMAIN CleanRows : Selected(CleanRows[j]) => CleanRows[j] \in Range(data)
        /\ Len(data) = Cardinality({j \in DOMAIN CleanRows : Selected(CleanRows[j])})

\* a selection that keeps some records and leaves others out
C1_Witness ==
    /\ Rendered
    /\ Len(data) > 0
    /\ Len(data) < Len(CleanRows)
    /\ region_filter # {} /\ category_filter # {} /\ segment_filter # {}

DashboardPanels ==
    {"trend", "lead_hist", "risk_crosstab", "lt_region_mode", "top_cat_seg",
     "region_profit", "high_delay"}

EmptySelection == region_filter = {} \/ category_filter = {} \/ segment_filter = {}

\* C2 (as stated): with an empty selection in any filter the view has size
\* 0, every dashboard panel shows an explicit "no data" message, and no KPI
\* is NaN.
C2_EmptySelectionNoData ==
    (Rendered /\ EmptySelection) =>
        /\ Len(data) = 0
        /\ panels.notices = DashboardPanels
        /\ panels.kpis.avg_lead_time # None
        /\ panels.kpis.late_risk # None

LoadFailed == lastRun.outcome = "NameError"

\* C4: when the fetch of the remote file raises, the run ends with that
\* exception before anything is displayed, neither store holds anything,
\* and the next run executes the body of load_raw() again instead of
\* returning a stored value.
C4_FailureNotCached ==
    /\ [](LoadFailed =>
            /\ lastRun.entered
            /\ rawCache = None
            /\ buildCache = None
            /\ lastRun.df_clean = None
            /\ panels = NoPanels)
    /\ [][LoadFailed => (attempts' = attempts + 1 /\ lastRun'.entered)]_vars

\* a second run after a failed one: the body of load_raw() ran both times
C4_Witness ==
    /\ LoadFailed
    /\ attempts = 2
    /\ rawCache = None
    /\ buildCache = None

\* C5 (as stated): build_dataset() never fails because of imputation.
C5_ImputationNeverRaises == lastRun.outcome # "KeyError"

\* C6: every cleaned record has a lead_time_days value, and it is >= 0.
C6_LeadTimeNonNegative ==
    lastRun.df_clean # None =>
        \A i \in DOMAIN CleanRows :
            /\ "lead_time_days" \in DOMAIN CleanRows[i]
            /\ CleanRows[i]["lead_time_days"] # None
            /\ CleanRows[i]["lead_time_days"][1] >= 0

\* a record shipped before it was ordered
C6_Witness ==
    /\ lastRun.df_clean # None
    /\ \E i \in DOMAIN CleanRows :
         LET r == CleanRows[i] IN
            /\ r["order_date"] # None /\ r["shipping_date"] # None
            /\ r["shipping_date"][1].min < r["order_date"][1].min
            /\ r["lead_time_days"] = <<0>>

RawName(c) ==
    CASE c = "order_region"     -> "Order Region"
      [] c = "category_name"    -> "Category Name"
      [] c = "customer_segment" -> "Customer Segment"

Occurrences(c, v) == Cardinality({i \in DOMAIN remote.rows : remote.rows[i][RawName(c)] = <<v>>})

\* C7: in every cleaned record region, category and segment are non-null;
\* a value present in the raw record is kept, a missing one is replaced by
\* a value no other value of the raw column occurs more often than.
C7_CategoricalsImputed ==
    lastRun.df_clean # None =>
        \A i \in DOMAIN CleanRows :
            \A c \in {"order_region", "category_name", "customer_segment"} :
                LET cell == CleanRows[i][c]
                    raw  == remote.rows[i][RawName(c)]
                IN  /\ cell # None
                    /\ raw # None => cell = raw
                    /\ raw = None =>
                         /\ Occurrences(c, cell[1]) >= 1
                         /\ \A j \in DOMAIN remote.rows :
                              remote.rows[j][RawName(c)] # None =>
                                 Occurrences(c, cell[1])
                                    >= Occurrences(c, remote.rows[j][RawName(c)][1])

\* a missing region in a column where one region is more frequent than another
C7_Witness ==
    /\ lastRun.df_clean # None
    /\ \E i, j, k \in DOMAIN remote.rows :
         /\ remote.rows[i]["Order Region"] = None
         /\ remote.rows[j]["Order Region"] # None
         /\ remote.rows[k]["Order Region"] # None
         /\ Occurrences("order_region", remote.rows[j]["Order Region"][1])
              > Occurrences("order_region", remote.rows[k]["Order Region"][1])

\* whole days in a difference of minutes, a negative difference counting as 0
WholeDays(minutes) == IF minutes < 0 THEN 0 ELSE minutes \div 1440

AtLeastZero(n) == IF n < 0 THEN 0 ELSE n

\* C8: for a cleaned record whose order_date and shipping_date both parsed,
\* lead_time_days is shipping - order in whole days; otherwise it is the
\* record's imputed "Days for shipping (real)"; a negative value becomes 0.
C8_LeadTimeValue ==
    lastRun.df_clean # None =>
        \A i \in DOMAIN CleanRows :
            LET r == CleanRows[i] IN
                IF r["order_date"] # None /\ r["shipping_date"] # None
                THEN r["lead_time_days"]
                        = <<WholeDays(r["shipping_date"][1].min - r["order_date"][1].min)>>
                ELSE /\ r["days_for_shipping_real"] # None
                     /\ r["lead_time_days"] = <<AtLeastZero(r["days_for_shipping_real"][1])>>

\* one record shipped 2 days and 18 hours after its order (2 whole days),
\* and one whose date did not parse and that takes its positive
\* "Days for shipping (real)"
C8_Witness ==
    /\ lastRun.df_clean # None
    /\ \E i, j \in DOMAIN CleanRows :
         LET r == CleanRows[i]
             q == CleanRows[j]
         IN  /\ r["order_date"] # None /\ r["shipping_date"] # None
             /\ r["shipping_date"][1].min - r["order_date"][1].min = 2 * 1440 + 18 * 60
             /\ r["lead_time_days"] = <<2>>
             /\ q["order_date"] = None \/ q["shipping_date"] = None
             /\ q["days_for_shipping_real"] # None
             /\ q["days_for_shipping_real"][1] > 0
             /\ q["lead_time_days"] = q["days_for_shipping_real"]

\* the (category, segment) pairs of the filtered view and their sales
ViewGroups ==
    {<<data[i]["category_name"][1], data[i]["customer_segment"][1]>> :
        i \in {j \in DOMAIN data :
                 data[j]["category_name"] # None /\ data[j]["customer_segment"] # None}}

GroupSales(g) ==
    SumTo(Len(data), LAMBDA i :
        IF /\ data[i]["category_name"] = <<g[1]>>
           /\ data[i]["customer_segment"] = <<g[2]>>
           /\ data[i]["sales"] # None
        THEN data[i]["sales"][1] ELSE 0)

TopKeys ==
    {<<panels.top_cat_seg[k].category_name, panels.top_cat_seg[k].customer_segment>> :
        k \in DOMAIN panels.top_cat_seg}

\* C9: the Top 15 table has at most 15 rows, its total sales never increase
\* from one row to the next, each row is a group of the view with that
\* group's sales, and no group left out sells more than a group in the table.
C9_TopFifteen ==
    Rendered =>
        LET top == panels.top_cat_seg IN
            /\ Len(top) <= 15
            /\ \A k \in DOMAIN top :
                 /\ <<top[k].category_name, top[k].customer_segment>> \in ViewGroups
                 /\ top[k].total_sales
                      = GroupSales(<<top[k].category_name, top[k].customer_segment>>)
            /\ \A k \in 1..(Len(top) - 1) : top[k].total_sales >= top[k + 1].total_sales
            /\ \A g \in ViewGroups \ TopKeys :
                 \A k \in DOMAIN top : GroupSales(g) <= top[k].total_sales

\* a view of more than 15 groups, cut to 15, with unequal sales, where a
\* group left out sells as much as the last one shown
C9_Witness ==
    /\ Rendered
    /\ Cardinality(ViewGroups) > 15
    /\ Len(panels.top_cat_seg) = 15
    /\ panels.top_cat_seg[1].total_sales > panels.top_cat_seg[15].total_sales
    /\ \E g \in ViewGroups \ TopKeys : GroupSales(g) = panels.top_cat_seg[15].total_sales

DefaultSelection ==
    /\ region_filter = AllValues("order_region")
    /\ category_filter = AllValues("category_name")
    /\ segment_filter = AllValues("customer_segment")

\* C10: with every option of the three filters selected, the filtered view
\* is the whole cleaned table.
C10_DefaultsKeepAll ==
    (Rendered /\ DefaultSelection) =>
        /\ data = CleanRows
        /\ Len(data) = Len(Val(lastRun.df_clean).rows)

\* the defaults on a table of several records, one of them with a missing
\* raw region
C10_Witness ==
    /\ Rendered
    /\ DefaultSelection
    /\ Len(data) >= 2
    /\ \E i \in DOMAIN remote.rows : remote.rows[i]["Order Region"] = None

====
